---- MODULE Spec2Model ----
EXTENDS Integers, Sequences, FiniteSets, TLC

(***************************************************************************)
(* Model of the controller of the autocompleteList directive              *)
(* (src/src/autocompleteList.js, ctrlFunc).                               *)
(*                                                                         *)
(* JavaScript values are records [t, id, s]: t is the typeof-like tag,    *)
(* id the identity of an object (or the value of a number / boolean), s   *)
(* the characters of a string.  Two values are === iff the records are     *)
(* equal (objects compare by identity, primitives by type and value).      *)
(* Strings are sequences of one-character strings.                         *)
(***************************************************************************)

Obj(n) == [t |-> "object", id |-> n, s |-> <<>>]
StrV(x) == [t |-> "string", id |-> 0, s |-> x]

o1 == Obj(1)
o2 == Obj(2)
o3 == Obj(3)
sB == StrV(<<"b">>)
sEmpty == StrV(<<>>)
numZero == [t |-> "number", id |-> 0, s |-> <<>>]
boolFalse == [t |-> "boolean", id |-> 0, s |-> <<>>]
jsNull == [t |-> "null", id |-> 0, s |-> <<>>]
jsUndefined == [t |-> "undefined", id |-> 0, s |-> <<>>]
\* An array item (arrays are objects, compared by reference).
arr1 == [t |-> "array", id |-> 4, s |-> <<>>]

\* Elements of the array item: ["b", "b"].
ArrayElems(a) == <<sB, sB>>

Items == {o1, o2, o3, sB, sEmpty, numZero, boolFalse, jsNull, jsUndefined, arr1}

\* The `name` property of the three objects.
ObjName(n) == CASE n = 1 -> <<"A", "b">>
                [] n = 2 -> <<"b">>
                [] n = 3 -> <<"B", "A">>

\* Candidate lists supplied through the `items` attribute.
CandLists == { <<o1, o2, o3>>,
               <<o2, sEmpty, numZero, o1>>,
               <<o1, o3, o1>>,
               <<sB, boolFalse, o3>>,
               <<o1, arr1>> }

\* Search strings the user can type into the md-autocomplete.
Queries == { <<>>, <<"a">>, <<"B">>, <<"a", "B">>, <<"b", "a">> }

\* Texts the user types into the search box in the model's runs.
SearchInputs == { <<>>, <<"a">>, <<"b", "a">> }

\* ng-model arrays the embedding application may bind initially: empty,
\* and arrays with a falsy value, a duplicate or a value that is not a
\* candidate.
InitSels == {<<>>, <<jsNull>>,
             <<sEmpty, o1>>, <<o1, o1>>, <<o2, jsUndefined>>}

\* Bound on the length of the selection (the model is otherwise unbounded).
MaxSel == 3

\* Guard written as `item !== null`.
Truthy_NotNull(x) == x.t # "null"
\* Guard written as `item != null`.
Truthy_NotNullish(x) == x.t \notin {"null", "undefined"}

\* JavaScript truthiness, as used by `if (item)`.
Truthy(x) == CASE x.t \in {"object", "array"} -> TRUE
               [] x.t = "string"    -> x.s # <<>>
               [] x.t = "number"    -> x.id # 0
               [] x.t = "boolean"   -> x.id # 0
               [] OTHER             -> FALSE

\* String(x) for the values of the model.
JsString(x) == CASE x.t = "string"    -> x.s
                 [] x.t = "number"    -> <<"0">>
                 [] x.t = "boolean"   -> <<"f", "a", "l", "s", "e">>
                 [] x.t = "null"      -> <<"n", "u", "l", "l">>
                 [] x.t = "undefined" -> <<"u", "n", "d", "e", "f", "i", "n", "e", "d">>
                 [] x.t = "array"     -> ArrayElems(x)[1].s \o <<",">> \o ArrayElems(x)[2].s
                 [] OTHER             -> <<"[", "o", "b", "j", "e", "c", "t", " ",
                                           "O", "b", "j", "e", "c", "t", "]">>

\* The item-text expression given by the embedding application:
\* item-text="item.name || ('' + item)", evaluated by AngularJS $parse:
\* member access on null/undefined yields undefined, and '+' drops an
\* undefined operand, so the text of undefined is ''.
GivenText(x) == CASE x.t = "object"    -> ObjName(x.id)
                  [] x.t = "undefined" -> <<>>
                  [] OTHER             -> JsString(x)

\* ctrl.itemText({item: item}).  With item-text given, a string.  Without
\* it the result has no toLowerCase method: the '&' binding returns
\* undefined, and the fallback `function(item) { return item; }` returns
\* the locals object {item: item}; either way the call throws a TypeError.
ItemText(fn, x) == IF fn = "given" THEN [ok |-> TRUE, s |-> GivenText(x)]
                                   ELSE [ok |-> FALSE, s |-> <<>>]

\* String.prototype.toLowerCase on the model's alphabet.
UpperLetters == <<"A", "B", "C", "D", "E", "F", "G", "H", "I", "J", "K", "L", "M", "N", "O", "P", "Q", "R", "S", "T", "U", "V", "W", "X", "Y", "Z">>
LowerLetters == <<"a", "b", "c", "d", "e", "f", "g", "h", "i", "j", "k", "l", "m", "n", "o", "p", "q", "r", "s", "t", "u", "v", "w", "x", "y", "z">>
CaseMap == [c \in {UpperLetters[i] : i \in 1..26} |->
               LowerLetters[CHOOSE i \in 1..26 : UpperLetters[i] = c]]
LowerChar(c) == IF c \in DOMAIN CaseMap THEN CaseMap[c] ELSE c
ToLowerCase(str) == [i \in 1..Len(str) |-> LowerChar(str[i])]

\* String.prototype.indexOf: first position (0-based) of needle, or -1.
RECURSIVE StrIndexFrom(_, _, _)
StrIndexFrom(hay, needle, i) ==
  IF i + Len(needle) > Len(hay) THEN -1
  ELSE IF SubSeq(hay, i + 1, i + Len(needle)) = needle THEN i
  ELSE StrIndexFrom(hay, needle, i + 1)
StrIndexOf(hay, needle) == StrIndexFrom(hay, needle, 0)

\* Array.prototype.indexOf (strict equality): first index (0-based) or -1.
RECURSIVE ArrIndexFrom(_, _, _)
ArrIndexFrom(arr, x, i) ==
  IF i >= Len(arr) THEN -1
  ELSE IF arr[i + 1] = x THEN i
  ELSE ArrIndexFrom(arr, x, i + 1)
ArrIndexOf(arr, x) == ArrIndexFrom(arr, x, 0)

\* Exclusion compared against the first selected item only.
IsSelected_FirstOnly(sel, item) == Len(sel) > 0 /\ sel[1] = item

\* ctrl.selectedItems().indexOf(item) !== -1
IsSelected(sel, item) == ArrIndexOf(sel, item) # -1

\* Item text searched without lower-casing it.
ItemMatchesString_NoLower(fn, item, string) ==
  LET txt == ItemText(fn, item) IN
  IF ~txt.ok THEN [err |-> TRUE, m |-> FALSE]
  ELSE [err |-> FALSE, m |-> StrIndexOf(txt.s, string) # -1]

\* itemMatchesString(item, string): [err, m] where err is a thrown TypeError.
ItemMatchesString(fn, item, string) ==
  LET txt == ItemText(fn, item) IN
  IF ~txt.ok THEN [err |-> TRUE, m |-> FALSE]
  ELSE [err |-> FALSE, m |-> StrIndexOf(ToLowerCase(txt.s), string) # -1]

\* The forEach loop of matchingItems, from index i with accumulator acc.
RECURSIVE MatchLoop(_, _, _, _, _, _)
MatchLoop(fn, items, sel, string, i, acc) ==
  IF i > Len(items) THEN [err |-> FALSE, res |-> acc]
  ELSE LET item == items[i] IN
       IF IsSelected(sel, item) THEN MatchLoop(fn, items, sel, string, i + 1, acc)
       ELSE LET r == ItemMatchesString(fn, item, string) IN
            IF r.err THEN [err |-> TRUE, res |-> acc]
            ELSE IF r.m THEN MatchLoop(fn, items, sel, string, i + 1, Append(acc, item))
            ELSE MatchLoop(fn, items, sel, string, i + 1, acc)

\* matchingItems(string): [err |-> thrown?, res |-> returned array].
MatchingItems(fn, items, sel, string) ==
  MatchLoop(fn, items, sel, ToLowerCase(string), 1, <<>>)

\* Index (1-based) of the first element of sel that is === item, or 0.
RECURSIVE DeselectLoop(_, _, _)
DeselectLoop(sel, item, i) ==
  IF i > Len(sel) THEN 0
  ELSE IF sel[i] = item THEN i
  ELSE DeselectLoop(sel, item, i + 1)

\* Removal of the last identical entry instead of the first.
DeselectResult_Last(sel, item) ==
  LET S == {k \in 1..Len(sel) : sel[k] = item} IN
  IF S = {} THEN sel
  ELSE LET i == CHOOSE k \in S : \A j \in S : j <= k IN
       SubSeq(sel, 1, i - 1) \o SubSeq(sel, i + 1, Len(sel))

\* selectedItems().splice(i, 1) for the first i with selectedItems()[i] === item.
DeselectResult(sel, item) ==
  LET i == DeselectLoop(sel, item, 1) IN
  IF i = 0 THEN sel
  ELSE SubSeq(sel, 1, i - 1) \o SubSeq(sel, i + 1, Len(sel))

\* ctrl.selectedItems().concat(item): an array argument is spread into
\* its elements, any other value is appended.
ConcatItem(sel, item) ==
  IF item.t = "array" THEN sel \o ArrayElems(item) ELSE Append(sel, item)

VARIABLES
  items,       \* ctrl.items (the candidate list, read only)
  textFn,      \* "given" when item-text is supplied, "absent" otherwise
  sel,         \* ctrl.modelCtrl.$modelValue (the selected items)
  searchText,  \* ctrl.searchText
  last,        \* the last operation performed and its argument
  fromUI,      \* every item chosen so far was in matchingItems(searchText)
  initOK,      \* the initial selection had no duplicate and only candidates
  lastChosen   \* the last truthy item passed to selectedItemChange

vars == <<items, textFn, sel, searchText, last, fromUI, initOK, lastChosen>>

\* Result of matchingItems in the current state.
Matching(q) == MatchingItems(textFn, items, sel, q)
InResult(x, q) == LET r == Matching(q) IN ~r.err /\ \E k \in 1..Len(r.res) : r.res[k] = x

NoDupInit(seq) == \A j, k \in 1..Len(seq) : seq[j] = seq[k] => j = k

Init ==
  /\ items \in CandLists
  /\ textFn \in {"given", "absent"}
  /\ sel \in InitSels
  /\ searchText = <<>>
  /\ last = [op |-> "init", arg |-> jsUndefined]
  /\ fromUI = TRUE
  /\ lastChosen = jsUndefined
  /\ initOK = (NoDupInit(sel) /\ \A k \in 1..Len(sel) : \E j \in 1..Len(items) : items[j] = sel[k])

\* selectedItemChange(item)
SelectedItemChange(item) ==
  /\ Truthy(item) => Len(ConcatItem(sel, item)) <= MaxSel
  /\ IF Truthy(item)
       THEN /\ sel' = ConcatItem(sel, item)
            /\ searchText' = <<>>
            /\ lastChosen' = item
       ELSE UNCHANGED <<sel, searchText, lastChosen>>
  /\ last' = [op |-> "choose", arg |-> item]
  /\ fromUI' = (fromUI /\ (Truthy(item) => InResult(item, searchText)))
  /\ UNCHANGED <<items, textFn, initOK>>

\* deselectItem(item)
DeselectItem(item) ==
  /\ sel' = DeselectResult(sel, item)
  /\ last' = [op |-> "deselect", arg |-> item]
  /\ UNCHANGED <<items, textFn, searchText, fromUI, initOK, lastChosen>>

\* md-search-text binding: the user edits the search box.
SetSearchText(q) ==
  /\ searchText' = q
  /\ last' = [op |-> "search", arg |-> jsUndefined]
  /\ UNCHANGED <<items, textFn, sel, fromUI, initOK, lastChosen>>

Next ==
  \/ \E x \in Items : SelectedItemChange(x)
  \/ \E x \in {sel[k] : k \in 1..Len(sel)} \cup {o3} : DeselectItem(x)
  \/ \E q \in SearchInputs : SetSearchText(q)

Spec == Init /\ [][Next]_vars

(***************************************************************************)
(* Properties.                                                             *)
(***************************************************************************)

InSel(x) == \E k \in 1..Len(sel) : sel[k] = x
InItems(x) == \E k \in 1..Len(items) : items[k] = x
CountIn(seq, x) == Cardinality({k \in 1..Len(seq) : seq[k] = x})
NoDup(seq) == \A j, k \in 1..Len(seq) : seq[j] = seq[k] => j = k
Contains(hay, needle) ==
  \E k \in 0..(Len(hay) - Len(needle)) :
     \A j \in 1..Len(needle) : hay[k + j] = needle[j]
Chose(x) == last' = [op |-> "choose", arg |-> x]
FalsyValues == {jsNull, jsUndefined, numZero, sEmpty, boolFalse}

\* C1: with item-text supplied, matchingItems(q) is exactly the items of the
\* candidate list, in order, that are not selected (===) and whose lower-cased
\* text contains the lower-cased query.
C1_MatchingExact ==
  textFn = "given" =>
    \A q \in Queries :
      LET r == Matching(q) IN
      /\ ~r.err
      /\ r.res = SelectSeq(items, LAMBDA x : ~InSel(x) /\
                       Contains(ToLowerCase(GivenText(x)), ToLowerCase(q)))
C1_Witness ==
  /\ textFn = "given" /\ Len(sel) >= 1
  /\ InResult(o1, <<"a", "B">>)

\* C2: for a selection drawn from the candidates, matchingItems("") is the
\* candidate list with the selected items removed, order preserved.
C2_EmptyQuery ==
  (textFn = "given" /\ \A k \in 1..Len(sel) : InItems(sel[k])) =>
    LET r == Matching(<<>>) IN
    ~r.err /\ r.res = SelectSeq(items, LAMBDA x : ~InSel(x))
C2_Witness ==
  /\ textFn = "given" /\ Len(sel) >= 1 /\ \A k \in 1..Len(sel) : InItems(sel[k])
  /\ Len(Matching(<<>>).res) >= 1

\* C3: no selected item is ever in the result of matchingItems(q).
C3_SelectedExcluded ==
  \A q \in Queries : \A k \in 1..Len(sel) : ~InResult(sel[k], q)
C3_Witness ==
  /\ textFn = "given" /\ Len(sel) >= 2
  /\ \A k \in 1..Len(sel) : InItems(sel[k])

\* C4 (as stated): once onItemChosen(item) has been performed (here for the
\* most recently chosen non-array item), matchingItems never returns item
\* again.
C4_Original ==
  (lastChosen # jsUndefined /\ lastChosen.t # "array") =>
    \A q \in Queries : ~InResult(lastChosen, q)
\* C4 (amended): matchingItems never returns an item while it is in the
\* selection, and after a deselect that leaves a candidate unselected,
\* every query its text matches returns it again.
C4_ExcludedWhileSelected ==
  /\ \A q \in Queries : LET r == Matching(q) IN
       \A j \in 1..Len(r.res) : ~InSel(r.res[j])
  /\ (last.op = "deselect" /\ ~InSel(last.arg) /\ InItems(last.arg)
      /\ textFn = "given")
        => \A q \in Queries :
             Contains(ToLowerCase(GivenText(last.arg)), ToLowerCase(q))
               => InResult(last.arg, q)
C4_Witness ==
  /\ last.op = "deselect" /\ textFn = "given"
  /\ last.arg = lastChosen /\ InItems(last.arg)
  /\ InResult(last.arg, <<"a">>) /\ InResult(last.arg, <<"a", "B">>)

\* C5: onItemChosen(item) with a non-null, non-undefined item appends item
\* to the selection and clears the search text.
C5_Original ==
  [][\A x \in Items \ {jsNull, jsUndefined} :
        Chose(x) => (sel' = Append(sel, x) /\ searchText' = <<>>)]_vars
\* C6: onItemChosen(null) and onItemChosen(undefined) change neither the
\* selection nor the search text.
C6_NullIgnored ==
  [][\A x \in {jsNull, jsUndefined} :
        Chose(x) => (sel' = sel /\ searchText' = searchText)]_vars
C6_Witness ==
  /\ last = [op |-> "choose", arg |-> jsNull]
  /\ Len(sel) >= 1 /\ searchText # <<>>

\* C7: deselect(item) removes exactly the first entry identical to item and
\* keeps the others in order; a non-member leaves the selection unchanged.
C7_DeselectFirst ==
  [][\A x \in Items :
        last' = [op |-> "deselect", arg |-> x] =>
          IF InSel(x)
            THEN \E i \in 1..Len(sel) :
                   /\ sel[i] = x
                   /\ \A j \in 1..(i - 1) : sel[j] # x
                   /\ sel' = [j \in 1..(Len(sel) - 1) |->
                                IF j < i THEN sel[j] ELSE sel[j + 1]]
            ELSE sel' = sel]_vars
C7_Witness ==
  /\ last.op = "deselect" /\ InSel(last.arg)
  /\ \E j, k \in 1..Len(sel) : j < k /\ sel[j] # sel[k]

\* C8: without item-text, matchingItems(q) completes without error (each item
\* being taken as its own text).
C8_DefaultTextWorks ==
  textFn = "absent" => \A q \in Queries : ~Matching(q).err

\* C9: starting from a selection with no duplicate and only candidates, while
\* every chosen item came from matchingItems(searchText), the selection has
\* no duplicate and holds only candidates; choosing an item that is already
\* selected duplicates it.
C9_UniqueSelection ==
  /\ []((initOK /\ fromUI) => (NoDup(sel) /\ \A k \in 1..Len(sel) : InItems(sel[k])))
  /\ [][\A x \in Items :
          (Chose(x) /\ Truthy(x) /\ InSel(x)) => CountIn(sel', x) >= 2]_vars

\* C10: onItemChosen ignores every falsy value (null, undefined, "", 0,
\* false), even one that is a candidate returned by matchingItems.
C10_FalsyIgnored ==
  [][\A x \in FalsyValues :
        Chose(x) => (sel' = sel /\ searchText' = searchText)]_vars
C10_Witness ==
  /\ last.op = "choose" /\ last.arg \in {sEmpty, numZero, boolFalse}
  /\ InResult(last.arg, searchText)

====
